---- MODULE Spec2Model ----
(***************************************************************************)
(* Model of src/ollama.py, the Streamlit page "ATS Resume Expert - Ollama  *)
(* Edition".  One behaviour of the model is a succession of runs of the    *)
(* page script.  A run executes the script top to bottom; every widget     *)
(* call returns the value the user currently holds in that widget, drawn   *)
(* here from a small set at the line that reads it, and every HTTP call    *)
(* returns an outcome chosen by the environment (the Ollama server).       *)
(***************************************************************************)
EXTENDS Integers, Sequences, FiniteSets, TLC

VARIABLES
    pc,                  \* position of the run in the script
    ollama_status,       \* line 91
    status_message,      \* line 91
    input_text,          \* line 99
    uploaded_file,       \* line 100
    model_options,       \* lines 105-121: sequence of [label, id], keys in dict order
    selected_model,      \* line 123
    submit1,             \* line 128
    submit3,             \* line 130
    timeout_seconds,     \* line 133
    page,                \* elements rendered by lines 90-133, in order
    process_placeholder, \* line 170: the single st.empty() slot
    output,              \* elements rendered by the submit handler, in order
    first_run,           \* TRUE in the run that loads the page, before any interaction
    probes,              \* outcomes of the GETs to /api/tags made by this run, in order
    converts,            \* number of calls of convert_pdf_to_image in this run
    posts,               \* number of POSTs to /api/generate made by this run
    request,             \* the POST issued (keyword arguments of requests.post)
    reply                \* what the server did with that POST

vars == << pc, ollama_status, status_message, input_text, uploaded_file,
           model_options, selected_model, submit1, submit3, timeout_seconds,
           page, process_placeholder, output, first_run, probes, converts,
           posts, request, reply >>

-----------------------------------------------------------------------------
(* Bounds of the model.                                                    *)

\* longest "models" array the status endpoint reports
MaxModels == 2
\* largest page count of an uploaded PDF
MaxPages == 2

(* Program constants.                                                      *)

OLLAMA_API_URL == "http://127.0.0.1:11434/api/generate"
TAGS_URL == "http://127.0.0.1:11434/api/tags"
\* timeout= of requests.post, line 51
PostTimeout == 60
\* the number written in the timeout message, line 58
PostTimeoutNamed == 60
SliderMin == 30
SliderMax == 300
SliderStep == 10
SliderDefault == 60

SliderValues == { v \in SliderMin..SliderMax : (v - SliderMin) % SliderStep = 0 }

-----------------------------------------------------------------------------
(* The environment: what the server and the user can supply.               *)

ModelNames == {"gemma3", "llava"}

RECURSIVE SeqsUpTo(_, _)
SeqsUpTo(S, n) ==
    IF n = 0 THEN { <<>> }
    ELSE LET shorter == SeqsUpTo(S, n - 1)
         IN  shorter \cup { Append(s, x) : s \in { t \in shorter : Len(t) = n - 1 }, x \in S }

\* Outcomes of requests.get(TAGS_URL, timeout=5).  json = FALSE is a body
\* that response.json() cannot decode.
TagResponses ==
    { [kind |-> "refused", status |-> 0, json |-> FALSE, models |-> <<>>],
      [kind |-> "timeout", status |-> 0, json |-> FALSE, models |-> <<>>],
      [kind |-> "http", status |-> 500, json |-> FALSE, models |-> <<>>],
      [kind |-> "http", status |-> 200, json |-> FALSE, models |-> <<>>] }
    \cup { [kind |-> "http", status |-> 200, json |-> TRUE, models |-> m] :
             m \in SeqsUpTo(ModelNames, MaxModels) }

\* Bodies of the inference response: a JSON object with or without a
\* "response" field, or text that is not JSON.
ResponseTexts == {"Strong match", ""}
Bodies ==
    { [json |-> TRUE, has |-> TRUE, response |-> r] : r \in ResponseTexts }
    \cup { [json |-> TRUE, has |-> FALSE, response |-> ""],
           [json |-> FALSE, has |-> FALSE, response |-> ""] }

NoBody == [json |-> FALSE, has |-> FALSE, response |-> ""]

\* Seconds the server takes to answer the POST.
Latencies == {20, 45, 90, 400}

\* What the server does with a POST: refuse the connection, or answer with
\* a status and a body after `latency` seconds.
Replies ==
    { [kind |-> "refused", latency |-> 0, status |-> 0, body |-> NoBody] }
    \cup { [kind |-> "http", latency |-> l, status |-> s, body |-> b] :
             l \in Latencies, s \in {200, 500}, b \in Bodies }

NoReply == [kind |-> "none", latency |-> 0, status |-> 0, body |-> NoBody]

\* Contents of the file uploader: nothing, bytes that are not a PDF, or a
\* PDF of 0..MaxPages pages.
PageSeq(n) == [i \in 1..n |-> i]
Files ==
    { [present |-> FALSE, valid |-> FALSE, pages |-> <<>>],    \* None
      [present |-> TRUE, valid |-> FALSE, pages |-> <<>>] }    \* corrupt bytes
    \cup { [present |-> TRUE, valid |-> TRUE, pages |-> PageSeq(n)] : n \in 0..MaxPages }

JobTexts == {"", "Data engineer"}

NoRequest == [url |-> "", model |-> "", prompt |-> [template |-> "", job_description |-> ""],
              stream |-> FALSE, images |-> <<>>, timeout |-> 0]

-----------------------------------------------------------------------------
(* check_ollama_status, lines 20-35, applied to the outcome of its GET.    *)

check_ollama_status(resp) ==
    IF resp.kind = "timeout"
    THEN [ok |-> FALSE,
          msg |-> [text |-> "Connection to Ollama timed out. Is Ollama running?"]]
    ELSE IF resp.kind = "refused"
    THEN [ok |-> FALSE, msg |-> [text |-> "Error connecting to Ollama: {e}"]]
    ELSE IF resp.status = 200
    THEN IF ~resp.json
         \* response.json() raises; requests' JSONDecodeError is a RequestException
         THEN [ok |-> FALSE, msg |-> [text |-> "Error connecting to Ollama: {e}"]]
         ELSE IF Len(resp.models) > 0
         THEN [ok |-> TRUE,
               msg |-> [text |-> "Ollama is running with {n} models available.",
                        n |-> Len(resp.models)]]
         ELSE [ok |-> TRUE,
               msg |-> [text |-> "Ollama is running but no models are available."]]
    ELSE [ok |-> FALSE,
          msg |-> [text |-> "Ollama responded with status code: {status}",
                   status |-> resp.status]]

-----------------------------------------------------------------------------
(* Model selection, lines 105-121.                                         *)

DefaultOptions == << [label |-> "Gemma 3", id |-> "gemma3"] >>

\* The dict comprehension of line 111: one key per distinct name, in the
\* order of first occurrence.
RECURSIVE available_models(_)
available_models(models) ==
    IF Len(models) = 0 THEN <<>>
    ELSE LET front == available_models(SubSeq(models, 1, Len(models) - 1))
             name == models[Len(models)]
         IN  IF \E i \in 1..Len(front) : front[i].id = name
             THEN front
             ELSE Append(front, [label |-> name, id |-> name])

\* A variant of lines 107-119 that keeps the default entry beside the
\* reported models.
model_options_with_default(resp) ==
    IF resp.kind = "http" /\ resp.status = 200 /\ resp.json
    THEN DefaultOptions \o available_models(resp.models)
    ELSE DefaultOptions

\* Lines 107-119, applied to the outcome of the GET of line 109.
model_options_from(resp) ==
    IF resp.kind # "http" THEN DefaultOptions           \* except: line 118
    ELSE IF resp.status = 200
    THEN IF ~resp.json THEN DefaultOptions              \* .json() raises: line 118
         ELSE IF Len(available_models(resp.models)) > 0
         THEN available_models(resp.models)
         ELSE DefaultOptions
    ELSE DefaultOptions

\* A variant of line 106 that asks for the model list whatever the status.
fetches_models_always(status) == TRUE

\* Line 106: the second GET is made only when the first one succeeded.
fetches_models(status) == status

Labels(options) == { options[i].label : i \in 1..Len(options) }
Ids(options) == { options[i].id : i \in 1..Len(options) }
\* model_options[selected_model], line 191
Lookup(options, label) ==
    options[CHOOSE i \in 1..Len(options) : options[i].label = label].id

-----------------------------------------------------------------------------
(* get_ollama_response, lines 37-62.                                       *)

\* The keyword arguments of requests.post, lines 42-51.
post_request(prompt, image_base64, model) ==
    [url |-> OLLAMA_API_URL, model |-> model, prompt |-> prompt, stream |-> FALSE,
     images |-> << image_base64 >>, timeout |-> PostTimeout]

\* requests raises Timeout when the server has not answered within timeout=.
TimedOut(req, rep) == rep.kind = "http" /\ rep.latency > req.timeout

\* A variant of line 54 written with `or`: an empty response is replaced too.
response_field_or_default(body) ==
    IF body.has /\ body.response # "" THEN body.response ELSE "No response generated"

\* response.json().get('response', 'No response generated'), line 54
response_field(body) ==
    IF body.has THEN body.response ELSE "No response generated"

\* Lines 49-62, applied to the request and to what the server did with it.
get_ollama_response(req, rep) ==
    IF TimedOut(req, rep)
    THEN [success |-> FALSE,
          response |-> [text |-> "Request to Ollama timed out after {n} seconds. The model might be too large or busy.",
                        n |-> PostTimeoutNamed]]
    ELSE IF rep.kind = "refused"
    THEN [success |-> FALSE, response |-> [text |-> "Request error: {e}"]]
    ELSE IF rep.status = 200
    THEN IF ~rep.body.json
         \* response.json() raises; requests' JSONDecodeError is a RequestException
         THEN [success |-> FALSE, response |-> [text |-> "Request error: {e}"]]
         ELSE [success |-> TRUE, response |-> response_field(rep.body)]
    ELSE [success |-> FALSE,
          response |-> [text |-> "Error: {status} - {text}",
                        status |-> rep.status, body |-> rep.body]]

\* A variant of line 51 that sends the request again after a timeout.
post_attempts_retry(rep) ==
    IF rep.kind = "http" /\ rep.latency > PostTimeout THEN 2 ELSE 1

\* The single call of requests.post at line 51: no loop, no retry.
post_attempts(rep) == 1

-----------------------------------------------------------------------------
(* convert_pdf_to_image, lines 64-88.                                      *)

\* first_page.save(format='JPEG') then base64.b64encode(...).decode('utf-8')
base64_jpeg(first_page) == [encoding |-> "base64", format |-> "JPEG", page |-> first_page]

NoImage == [encoding |-> "", format |-> "", page |-> 0]

\* A variant of lines 64-88 without the check of line 71.
convert_pdf_to_image_unchecked(file) ==
    IF file.present
    THEN IF ~file.valid
         THEN [success |-> FALSE, image |-> NoImage,
               error |-> [text |-> "Error processing PDF: {e}"]]
         ELSE [success |-> TRUE,
               image |-> IF Len(file.pages) = 0 THEN NoImage ELSE base64_jpeg(file.pages[1]),
               error |-> [text |-> ""]]
    ELSE [success |-> FALSE, image |-> NoImage, error |-> [text |-> "No file uploaded."]]

convert_pdf_to_image(file) ==
    IF file.present
    THEN IF ~file.valid
         THEN [success |-> FALSE, image |-> NoImage,
               error |-> [text |-> "Error processing PDF: {e}"]]
         ELSE IF Len(file.pages) = 0
         THEN [success |-> FALSE, image |-> NoImage,
               error |-> [text |-> "Could not extract any images from the PDF."]]
         ELSE [success |-> TRUE, image |-> base64_jpeg(file.pages[1]),
               error |-> [text |-> ""]]
    ELSE [success |-> FALSE, image |-> NoImage, error |-> [text |-> "No file uploaded."]]

-----------------------------------------------------------------------------
(* The submit handler's precondition chain, lines 161-168.                 *)

\* Variants of lines 161-168: without the status check, with the text
\* checked before the document, and with the status checked last.
handler_branch_no_status(status, file, text) ==
    IF ~file.present THEN "no_file"
    ELSE IF text = "" THEN "no_text"
    ELSE "process"

handler_branch_text_first(status, file, text) ==
    IF ~status THEN "unreachable"
    ELSE IF text = "" THEN "no_text"
    ELSE IF ~file.present THEN "no_file"
    ELSE "process"

handler_branch_status_last(status, file, text) ==
    IF ~file.present THEN "no_file"
    ELSE IF text = "" THEN "no_text"
    ELSE IF ~status THEN "unreachable"
    ELSE "process"

handler_branch(status, file, text) ==
    IF ~status THEN "unreachable"
    ELSE IF ~file.present THEN "no_file"
    ELSE IF text = "" THEN "no_text"
    ELSE "process"

Entry(level, msg) == [level |-> level, msg |-> msg]
Text(t) == [text |-> t]
Empty == Entry("empty", Text(""))

-----------------------------------------------------------------------------------------------------------------------------------------------------
(* The state at the top of the script, when the page is first loaded.      *)

NoFile == [present |-> FALSE, valid |-> FALSE, pages |-> <<>>]

Init ==
    /\ pc = "check_status"
    /\ ollama_status = FALSE
    /\ status_message = Text("")
    /\ input_text = ""
    /\ uploaded_file = NoFile
    /\ model_options = <<>>
    /\ selected_model = ""
    /\ submit1 = FALSE
    /\ submit3 = FALSE
    /\ timeout_seconds = SliderDefault
    /\ page = <<>>
    /\ process_placeholder = Empty
    /\ output = <<>>
    /\ first_run = TRUE
    /\ probes = <<>>
    /\ converts = 0
    /\ posts = 0
    /\ request = NoRequest
    /\ reply = NoReply

\* Lines 90-96: the status probe and its banner.
CheckStatus ==
    /\ pc = "check_status"
    /\ \E resp \in TagResponses :
         LET r == check_ollama_status(resp)
         IN  /\ probes' = Append(probes, resp)
             /\ ollama_status' = r.ok
             /\ status_message' = r.msg
             /\ page' = IF ~r.ok
                        THEN page \o << Entry("error", r.msg),
                                        Entry("info", Text("Please make sure Ollama is running and accessible before proceeding.")) >>
                        ELSE Append(page, Entry("success", r.msg))
    /\ pc' = "inputs"
    /\ UNCHANGED << input_text, uploaded_file, model_options, selected_model, submit1,
                    submit3, timeout_seconds, process_placeholder, output, first_run,
                    converts, posts, request, reply >>

\* Lines 98-103: the job description and the file uploader.  On the first
\* run both widgets hold their defaults.
ReadInputs ==
    /\ pc = "inputs"
    /\ \E text \in JobTexts, file \in Files :
         /\ first_run => text = "" /\ file = NoFile
         /\ input_text' = text
         /\ uploaded_file' = file
         /\ page' = IF file.present
                    THEN Append(page, Entry("write", Text("PDF Uploaded Successfully")))
                    ELSE page
    /\ pc' = "models"
    /\ UNCHANGED << ollama_status, status_message, model_options, selected_model,
                    submit1, submit3, timeout_seconds, process_placeholder, output,
                    first_run, probes, converts, posts, request, reply >>

\* Lines 105-123: the model list and the select box.  The select box
\* returns one of the keys it offers, the first one on the first run.
SelectModel ==
    /\ pc = "models"
    /\ \/ /\ fetches_models(ollama_status)
          /\ \E resp \in TagResponses :
               /\ probes' = Append(probes, resp)
               /\ model_options' = model_options_from(resp)
       \/ /\ ~fetches_models(ollama_status)
          /\ model_options' = DefaultOptions
          /\ UNCHANGED probes
    /\ selected_model' \in Labels(model_options')
    /\ first_run => selected_model' = model_options'[1].label
    /\ pc' = "controls"
    /\ UNCHANGED << ollama_status, status_message, input_text, uploaded_file, submit1,
                    submit3, timeout_seconds, page, process_placeholder, output,
                    first_run, converts, posts, request, reply >>

\* Lines 125-133: the two buttons (a run is started by one interaction, so
\* at most one is pressed, and none on the first run) and the timeout slider.
ReadControls ==
    /\ pc = "controls"
    /\ \E b \in {"none", "submit1", "submit3"}, t \in SliderValues :
         /\ first_run => b = "none" /\ t = SliderDefault
         /\ submit1' = (b = "submit1")
         /\ submit3' = (b = "submit3")
         /\ timeout_seconds' = t
    /\ pc' = "handler"
    /\ UNCHANGED << ollama_status, status_message, input_text, uploaded_file,
                    model_options, selected_model, page, process_placeholder, output,
                    first_run, probes, converts, posts, request, reply >>

\* Lines 161-171: the precondition chain of the submit handler.
Handler ==
    /\ pc = "handler"
    /\ IF ~(submit1 \/ submit3)
       THEN /\ pc' = "done"
            /\ UNCHANGED << output, process_placeholder >>
       ELSE LET branch == handler_branch(ollama_status, uploaded_file, input_text)
            IN  CASE branch = "unreachable" ->
                       /\ output' = Append(output, Entry("error", Text("Cannot process request because Ollama is not accessible.")))
                       /\ pc' = "done"
                       /\ UNCHANGED process_placeholder
                  [] branch = "no_file" ->
                       /\ output' = Append(output, Entry("warning", Text("Please upload a resume")))
                       /\ pc' = "done"
                       /\ UNCHANGED process_placeholder
                  [] branch = "no_text" ->
                       /\ output' = Append(output, Entry("warning", Text("Please enter a job description")))
                       /\ pc' = "done"
                       /\ UNCHANGED process_placeholder
                  [] OTHER ->
                       /\ process_placeholder' = Entry("info", Text("Processing PDF... This may take a moment"))
                       /\ pc' = "convert"
                       /\ UNCHANGED output
    /\ UNCHANGED << ollama_status, status_message, input_text, uploaded_file,
                    model_options, selected_model, submit1, submit3, timeout_seconds,
                    page, first_run, probes, converts, posts, request, reply >>

\* Lines 173-182: rasterize the document.
Convert ==
    /\ pc = "convert"
    /\ LET r == convert_pdf_to_image(uploaded_file)
       IN  /\ converts' = converts + 1
           /\ IF ~r.success
              THEN /\ process_placeholder' = Entry("error", r.error)
                   /\ pc' = "done"
              ELSE /\ process_placeholder' = Entry("info", Text("PDF processed in {pdf_time} seconds. Getting response from Ollama..."))
                   /\ pc' = "post"
    /\ UNCHANGED << ollama_status, status_message, input_text, uploaded_file,
                    model_options, selected_model, submit1, submit3, timeout_seconds,
                    page, output, first_run, probes, posts, request, reply >>

\* Lines 184-210: build the prompt, call the inference server, display the
\* outcome.  The image is the one convert_pdf_to_image returned at line 175.
Post ==
    /\ pc = "post"
    /\ \E rep \in Replies :
         LET prompt == [template |-> IF submit1 THEN "input_prompt1" ELSE "input_prompt3",
                        job_description |-> input_text]
             model_id == Lookup(model_options, selected_model)
             req == post_request(prompt, convert_pdf_to_image(uploaded_file).image, model_id)
             r == get_ollama_response(req, rep)
         IN  /\ posts' = posts + post_attempts(rep)
             /\ request' = req
             /\ reply' = rep
             /\ process_placeholder' = Empty
             /\ output' = IF r.success
                          THEN output \o << Entry("success", Text("Analysis completed in {ollama_time} seconds!")),
                                            Entry("subheader", Text("Analysis Results")),
                                            Entry("markdown", r.response) >>
                          ELSE output \o << Entry("error", [text |-> "Error: {response}", response |-> r.response]),
                                            Entry("info", Text("Try the following troubleshooting steps:")),
                                            Entry("info", Text("1. Check if Ollama is running with 'ollama list'")),
                                            Entry("info", Text("2. Verify the model exists with 'ollama list'")),
                                            Entry("info", Text("3. If needed, pull the model with 'ollama pull gemma3'")) >>
    /\ pc' = "done"
    /\ UNCHANGED << ollama_status, status_message, input_text, uploaded_file,
                    model_options, selected_model, submit1, submit3, timeout_seconds,
                    page, first_run, probes, converts >>

\* The user touches a widget: Streamlit runs the script again from the top,
\* with nothing kept from the previous run but the widgets' values.
Rerun ==
    /\ pc = "done"
    /\ pc' = "check_status"
    /\ ollama_status' = FALSE
    /\ status_message' = Text("")
    /\ input_text' = ""
    /\ uploaded_file' = NoFile
    /\ model_options' = <<>>
    /\ selected_model' = ""
    /\ submit1' = FALSE
    /\ submit3' = FALSE
    /\ timeout_seconds' = SliderDefault
    /\ page' = <<>>
    /\ process_placeholder' = Empty
    /\ output' = <<>>
    /\ first_run' = FALSE
    /\ probes' = <<>>
    /\ converts' = 0
    /\ posts' = 0
    /\ request' = NoRequest
    /\ reply' = NoReply

Next ==
    \/ CheckStatus
    \/ ReadInputs
    \/ SelectModel
    \/ ReadControls
    \/ Handler
    \/ Convert
    \/ Post
    \/ Rerun

Spec == Init /\ [][Next]_vars

-----------------------------------------------------------------------------
(* Vocabulary of the properties.                                           *)

pressed == submit1 \/ submit3

\* A GET to /api/tags succeeded: it was answered 200 with a decodable body.
ProbeSucceeded(resp) == resp.kind = "http" /\ resp.status = 200 /\ resp.json

NamesOf(models) == { models[i] : i \in 1..Len(models) }

\* The widgets have been read and the handler has run to its end.
finished == pc = "done"

Shows(seq, level, msg) == \E i \in 1..Len(seq) : seq[i].level = level /\ seq[i].msg = msg

CannotProcess == Text("Cannot process request because Ollama is not accessible.")
PleaseUpload == Text("Please upload a resume")
PleaseEnter == Text("Please enter a job description")

TimeoutError(n) ==
    [text |-> "Request to Ollama timed out after {n} seconds. The model might be too large or busy.",
     n |-> n]

\* The terminal outcomes the handler has put on the page: a result, an
\* error or a warning.
Outcomes ==
    Cardinality({ i \in 1..Len(output) : output[i].level \in {"markdown", "error", "warning"} })
    + (IF process_placeholder.level = "error" THEN 1 ELSE 0)

-----------------------------------------------------------------------------
(* C1.                                                                     *)

\* C1 as stated: a POST to /api/generate is sent only if the job
\* description is non-empty, a resume is uploaded and the latest GET to
\* /api/tags of the run succeeded.
C1_PostOnlyIfLatestProbeSucceeded ==
    posts > 0 =>
        /\ input_text # ""
        /\ uploaded_file.present
        /\ Len(probes) > 0
        /\ ProbeSucceeded(probes[Len(probes)])

\* C1 amended: a POST to /api/generate is sent only if the job description
\* is non-empty, a resume is uploaded and the first GET to /api/tags of the
\* run, the one check_ollama_status makes, succeeded.
C1_PostOnlyIfStatusProbeSucceeded ==
    posts > 0 =>
        /\ input_text # ""
        /\ uploaded_file.present
        /\ Len(probes) > 0
        /\ ProbeSucceeded(probes[1])

C1_Witness ==
    /\ posts = 1
    /\ Len(probes) = 2
    /\ ProbeSucceeded(probes[1])
    /\ ~ProbeSucceeded(probes[2])

-----------------------------------------------------------------------------
(* C2.                                                                     *)

\* C2 as stated: a press with the job description empty or the document
\* absent invokes neither the rasterizer nor the inference client, and ends
\* with a warning that names a missing input on the page.
C2_WarningForMissingInput ==
    (pressed /\ (input_text = "" \/ ~uploaded_file.present)) =>
        /\ converts = 0
        /\ posts = 0
        /\ finished =>
             \/ ~uploaded_file.present /\ Shows(output, "warning", PleaseUpload)
             \/ input_text = "" /\ Shows(output, "warning", PleaseEnter)

\* C2 amended: such a press invokes neither the rasterizer nor the
\* inference client; when the status probe succeeded it ends with exactly
\* one warning, 'Please upload a resume' if the document is absent and
\* 'Please enter a job description' otherwise; when the status probe failed
\* it ends with the 'Cannot process request' error and no warning.
C2_OneWarningWhenReachable ==
    (pressed /\ (input_text = "" \/ ~uploaded_file.present)) =>
        /\ converts = 0
        /\ posts = 0
        /\ finished =>
             /\ Len(output) = 1
             /\ IF ~ProbeSucceeded(probes[1])
                THEN output[1] = Entry("error", CannotProcess)
                ELSE IF ~uploaded_file.present
                THEN output[1] = Entry("warning", PleaseUpload)
                ELSE output[1] = Entry("warning", PleaseEnter)

C2_Witness ==
    /\ finished
    /\ pressed
    /\ ProbeSucceeded(probes[1])
    /\ input_text = ""
    /\ ~uploaded_file.present
    /\ Shows(output, "warning", PleaseUpload)

-----------------------------------------------------------------------------
(* C3.                                                                     *)

\* C3: when the server takes longer than the timeout the slider holds, the
\* error on the page is the timeout error naming the slider's value, and it
\* is not the error of a refused connection.
C3_TimeoutErrorNamesSlider ==
    (finished /\ posts > 0 /\ reply.kind = "http" /\ reply.latency > timeout_seconds) =>
        /\ Shows(output, "error",
                 [text |-> "Error: {response}", response |-> TimeoutError(timeout_seconds)])
        /\ ~Shows(output, "error",
                  [text |-> "Error: {response}", response |-> Text("Request error: {e}")])

-----------------------------------------------------------------------------
(* C4.                                                                     *)

\* C4: the POST is issued with the slider's value as its time bound, and
\* is reported as timed out exactly when the server takes longer than that.
C4_PostBoundIsSlider ==
    posts > 0 =>
        /\ request.timeout = timeout_seconds
        /\ reply.kind = "http" =>
             (Shows(output, "error",
                    [text |-> "Error: {response}", response |-> TimeoutError(PostTimeoutNamed)])
              <=> reply.latency > timeout_seconds)

-----------------------------------------------------------------------------
(* C5.                                                                     *)

\* C5 as stated: a run makes at most one GET to /api/tags.
C5_AtMostOneGet == Len(probes) <= 1

\* C5 amended: a run makes at most two GETs to /api/tags, one by
\* check_ollama_status and one by the model selection; the second is made
\* exactly when the first succeeded, and neither is repeated.
C5_SecondGetOnlyAfterSuccess ==
    /\ Len(probes) <= 2
    /\ Len(probes) = 2 => ProbeSucceeded(probes[1])
    /\ pc \notin {"check_status", "inputs", "models"} =>
         Len(probes) = (IF ProbeSucceeded(probes[1]) THEN 2 ELSE 1)

C5_Witness ==
    /\ finished
    /\ Len(probes) = 2
    /\ ~ProbeSucceeded(probes[2])

-----------------------------------------------------------------------------
(* C6.                                                                     *)

\* C6: once the model list is built, the set of selectable identifiers is
\* not empty; it is {"gemma3"} when the latest GET to /api/tags failed or
\* reported no models, and the set of reported names otherwise; the model
\* of the POST is one of them.
C6_SelectableModels ==
    pc \notin {"check_status", "inputs", "models"} =>
        LET last == probes[Len(probes)]
        IN  /\ Ids(model_options) # {}
            /\ IF ~ProbeSucceeded(last) \/ Len(last.models) = 0
               THEN Ids(model_options) = {"gemma3"}
               ELSE Ids(model_options) = NamesOf(last.models)
            /\ posts > 0 => request.model \in Ids(model_options)

C6_Witness ==
    /\ posts = 1
    /\ Len(probes) = 2
    /\ probes[2].models = << "llava", "gemma3" >>
    /\ request.model = "llava"

-----------------------------------------------------------------------------
(* C7.                                                                     *)

\* C7: when the status probe failed, the banner is on the page, and a press
\* of either button, whatever the inputs, ends with the 'Cannot process
\* request' error and neither the rasterizer nor the inference client run.
C7_UnreachableShortCircuits ==
    (Len(probes) > 0 /\ ~ProbeSucceeded(probes[1])) =>
        /\ Len(page) >= 2
        /\ page[1] = Entry("error", check_ollama_status(probes[1]).msg)
        /\ page[2].level = "info"
        /\ converts = 0
        /\ posts = 0
        /\ (finished /\ pressed) => output = << Entry("error", CannotProcess) >>

C7_Witness ==
    /\ finished
    /\ submit3
    /\ probes = << [kind |-> "refused", status |-> 0, json |-> FALSE, models |-> <<>>] >>
    /\ uploaded_file.present
    /\ input_text # ""
    /\ output = << Entry("error", CannotProcess) >>

-----------------------------------------------------------------------------
(* C8.                                                                     *)

\* C8: when the handler rasterizes a document that is corrupt or has no
\* page, the page shows the rasterizer's error message and no POST is made.
C8_UndecodableDocumentStops ==
    (converts > 0 /\ (~uploaded_file.valid \/ Len(uploaded_file.pages) = 0)) =>
        /\ finished
        /\ converts = 1
        /\ process_placeholder.level = "error"
        /\ process_placeholder.msg.text # ""
        /\ process_placeholder.msg = convert_pdf_to_image(uploaded_file).error
        /\ output = <<>>
        /\ posts = 0

C8_Witness ==
    /\ finished
    /\ converts = 1
    /\ uploaded_file.valid
    /\ Len(uploaded_file.pages) = 0
    /\ process_placeholder = Entry("error", Text("Could not extract any images from the PDF."))

-----------------------------------------------------------------------------
(* C9.                                                                     *)

\* The client received an answer within the time bound of the request.
Answered == posts > 0 /\ reply.kind = "http" /\ reply.latency <= request.timeout

ErrorWithStatusAndBody ==
    [text |-> "Error: {response}",
     response |-> [text |-> "Error: {status} - {text}",
                   status |-> reply.status, body |-> reply.body]]

IsResult(text) ==
    /\ Len(output) = 3
    /\ output[3].level = "markdown"
    /\ output[3].msg = text

\* C9 as stated: an answer with status 200 is displayed as the value of its
\* "response" field, or as 'No response generated' when the field is
\* absent; any other status yields the error with the status and the body,
\* and no result.
C9_Status200IsDisplayed ==
    Answered =>
        IF reply.status = 200
        THEN IsResult(IF reply.body.has THEN reply.body.response
                      ELSE "No response generated")
        ELSE /\ Shows(output, "error", ErrorWithStatusAndBody)
             /\ \A i \in 1..Len(output) : output[i].level # "markdown"

\* C9 amended: an answer with status 200 whose body is a JSON object is
\* displayed as the value of its "response" field, or as 'No response
\* generated' when the field is absent; an answer with status 200 whose
\* body is not JSON yields a request error and no result; any other status
\* yields the error with the status and the body, and no result.
C9_Status200JsonIsDisplayed ==
    Answered =>
        IF reply.status = 200 /\ reply.body.json
        THEN IsResult(IF reply.body.has THEN reply.body.response
                      ELSE "No response generated")
        ELSE /\ \A i \in 1..Len(output) : output[i].level # "markdown"
             /\ IF reply.status = 200
                THEN Shows(output, "error",
                           [text |-> "Error: {response}", response |-> Text("Request error: {e}")])
                ELSE Shows(output, "error", ErrorWithStatusAndBody)

C9_Witness ==
    /\ Answered
    /\ reply.status = 200
    /\ reply.body = [json |-> TRUE, has |-> TRUE, response |-> ""]
    /\ IsResult("")

-----------------------------------------------------------------------------
(* C10.                                                                    *)

\* C10: a run makes at most one POST, only for a pressed button; the POST
\* ends the run, whatever its outcome; a run started by a press ends with
\* exactly one terminal outcome on the page.
C10_OnePostOneOutcome ==
    /\ posts <= 1
    /\ posts = 1 => pressed /\ finished
    /\ (finished /\ pressed) => Outcomes = 1
    /\ (finished /\ ~pressed) => Outcomes = 0 /\ posts = 0

C10_Witness ==
    /\ finished
    /\ posts = 1
    /\ reply.kind = "http"
    /\ reply.latency > request.timeout
    /\ Outcomes = 1

====
